---- MODULE Spec2Model ----
(***************************************************************************)
(* The job orchestration layer of creative-engine: the three endpoint      *)
(* operations (generate_sketch, generate_3d_preview, generate_model), the  *)
(* pipeline they drive (wait_for_file, process_3d_job, extract_glb_async), *)
(* the retry helper retry_async, and the scheduling of concurrently        *)
(* handled requests.                                                       *)
(*                                                                         *)
(* The repository holds two implementations of the endpoints:              *)
(*   "services": src/services/*.py + src/utils/retry.py, coroutines that   *)
(*               the UI runs with asyncio.run, one event loop per call     *)
(*               (src/ui/service_handlers.py, src/ui/main.py);             *)
(*   "app":      src/app/main.py, a FastAPI application: one event loop    *)
(*               shared by all requests, remote calls made synchronously.  *)
(* The variable impl says which one is deployed.                           *)
(***************************************************************************)
EXTENDS Integers, Sequences, FiniteSets, TLC

\* ------------------------------------------------------------------ bounds
MaxClock == 1      \* the wall clock (seconds) runs over 0..MaxClock
MaxRetries == 3    \* retry_async is explored for retries in 1..MaxRetries
MaxChunks == 3     \* the chat backend sends at most MaxChunks chunks
MaxPolls == 6      \* the progress loop of the UI runs MaxPolls iterations (150 in the code)

\* ------------------------------------------------------- program constants
WaitRetries == 3   \* wait_for_file(retries=3)
WaitDelay == 2     \* wait_for_file(delay=2)
VideoRetries == 8  \* process_3d_job: retries = 8
VideoDelay == 10   \* process_3d_job: delay = 10
VideoStep == 5     \* process_3d_job: delay + 5
VideoCap == 80     \* process_3d_job: min(.., 80)
GlbRetries == 3    \* extract_glb_async: retries=3
GlbDelay == 5      \* extract_glb_async: initial_delay=5

Req == {"A", "B"}
NoReq == "none"

Impl == {"services", "app"}
Endpoint == {"sketch", "preview", "model"}

Suffix == {"uploaded", "3d_preview", "3d_model", "gaussian", "flux_image", "flux_image_bg"}
Paths == (0..MaxClock) \X Suffix

VARIABLES
  impl,       \* which implementation is deployed
  clock,      \* wall clock, in seconds (datetime.now() at second granularity)
  arrivals,   \* requests that have not arrived yet
  observed,   \* requests whose events are recorded in trace
  running,    \* app: the request whose coroutine occupies the shared event loop
  files,      \* data directory: path -> "absent" | "empty" | the request whose data it holds
  writers,    \* history: path -> the requests that have written it
  pc,         \* per request: position in its handler
  kind,       \* per request: the endpoint it called
  ts,         \* per request: timestamp token
  upload,     \* per request: "empty" or "data" (the uploaded bytes)
  attempt,    \* per request: loop counter of the loop it is in
  delay,      \* per request: delay variable of the loop it is in
  inflight,   \* per request: the remote call it is waiting for, or "none"
  submitted,  \* per request: whose image the /image_to_3d job was given
  cause,      \* per request: the step whose failure ended the job
  failure,    \* per request: the exception that reached the endpoint's handler
  out,        \* per request: what the caller of the endpoint receives
  trace,      \* history: per observed request, its events in order
  overlap,    \* history: another job's remote call fell between this job's
              \* /image_to_3d submission and its /extract_glb call
  subtitles,  \* per request: result.get("subtitles") of the job's result
  rt,         \* one invocation of retry_async (specification SpecRetry)
  fc,         \* one invocation of fetch_or_copy_file (specification SpecFile)
  wf,         \* one invocation of wait_for_file (specification SpecWait)
  ch,         \* one chat exchange through stream_chat (specification SpecChat)
  gx,         \* the two GLB extraction loops on one sequence of outcomes (SpecGlb)
  ui          \* one background sketch task of the UI and its reader (SpecUi)

vars == <<impl, clock, arrivals, observed, running, files, writers, pc, kind, ts,
          upload, attempt, delay, inflight, submitted, cause, failure, out,
          trace, overlap, subtitles, rt, fc, wf, ch, gx, ui>>

\* ------------------------------------------------------------- exceptions
NoExc == [class |-> "none", status |-> 0, detail |-> ""]
HTTPException(s, d) == [class |-> "HTTPException", status |-> s, detail |-> d]
Exception(d) == [class |-> "Exception", status |-> 0, detail |-> d]

\* Python's None.
None == "None"

NoOut == [status |-> 0, detail |-> "", path |-> <<>>, subtitles |-> None]
Ok(path, subs) == [status |-> 200, detail |-> "", path |-> path, subtitles |-> subs]
ErrorResponse(e) == [status |-> e.status, detail |-> e.detail, path |-> <<>>,
                     subtitles |-> None]

\* The fixed message of each endpoint's generic 500.
FixedMessage(ep) ==
  CASE ep = "sketch" -> "Error generating image."
    [] ep = "preview" -> "Error generating 3D preview."
    [] ep = "model" -> "Error generating GLB model."

\* The except clauses of an endpoint: what the caller receives when exception e
\* reaches them. Only app's generate_3d_preview and generate_model have
\* `except HTTPException: raise` before `except Exception`.
endpoint_except(im, ep, e) ==
  IF im = "app" /\ ep \in {"preview", "model"} /\ e.class = "HTTPException"
  THEN e
  ELSE HTTPException(500, FixedMessage(ep))

\* ------------------------------------------------------------- scheduling
\* app runs every handler on one event loop: a coroutine keeps the loop from
\* the moment it is resumed to its next await. services are run with
\* asyncio.run, one loop (and thread) per call.
CanRun(r) == impl = "services" \/ running \in {NoReq, r}
Hold(r) == IF impl = "app" THEN r ELSE running
Yield == IF impl = "app" THEN NoReq ELSE running

\* ------------------------------------------------------------------ trace
Ev(e, op, v) == [e |-> e, op |-> op, v |-> v]
Record(r, evs) ==
  IF r \in observed THEN [trace EXCEPT ![r] = @ \o evs] ELSE trace

Min(a, b) == IF a < b THEN a ELSE b

\* A loop that runs once more than its bound.
range_has_inclusive(i, n) == i <= n

\* for attempt in range(retries): attempt i is made when i < retries
range_has(i, n) == i < n

\* ------------------------------------------------------- effects of a step
Goto(r, p) == pc' = [pc EXCEPT ![r] = p] /\ UNCHANGED <<cause, failure, out>>

\* An exception of /start_session that is swallowed: the job goes on.
Fail_swallowed(r, c, e) ==
  /\ pc' = [pc EXCEPT ![r] = IF c = "/start_session" THEN "/lambda" ELSE "failed"]
  /\ cause' = [cause EXCEPT ![r] = c]
  /\ failure' = [failure EXCEPT ![r] = e]
  /\ out' = [out EXCEPT ![r] = ErrorResponse(endpoint_except(impl, kind[r], e))]

\* Exception e, raised at step c, reaches the except clauses of r's endpoint.
Fail(r, c, e) ==
  /\ pc' = [pc EXCEPT ![r] = "failed"]
  /\ cause' = [cause EXCEPT ![r] = c]
  /\ failure' = [failure EXCEPT ![r] = e]
  /\ out' = [out EXCEPT ![r] = ErrorResponse(endpoint_except(impl, kind[r], e))]

Succeed(r, path) ==
  /\ pc' = [pc EXCEPT ![r] = "done"]
  /\ out' = [out EXCEPT ![r] = Ok(path, subtitles[r])]
  /\ UNCHANGED <<cause, failure>>

Loop(r, a, d) ==
  /\ attempt' = [attempt EXCEPT ![r] = a]
  /\ delay' = [delay EXCEPT ![r] = d]

WriteFile(r, sfx, content) ==
  /\ files' = [files EXCEPT ![<<ts[r], sfx>>] = content]
  /\ writers' = [writers EXCEPT ![<<ts[r], sfx>>] = @ \cup {r}]

\* The invocations checked on their own.
Helpers == <<rt, fc, wf, ch, gx, ui>>

Fixed == <<impl, clock, arrivals, observed, kind, ts, upload, Helpers>>

\* ------------------------------------------------------------------- Init
NoJob == [r \in Req |-> "none"]

\* A helper that is not invoked.
NoCall == [pc |-> "none"]

InitRequests ==
  /\ impl \in Impl
  /\ clock = 0
  /\ running = NoReq
  /\ files = [p \in Paths |-> "absent"]
  /\ writers = [p \in Paths |-> {}]
  /\ pc = [r \in Req |-> "idle"]
  /\ kind = NoJob
  /\ ts = [r \in Req |-> 0]
  /\ upload = NoJob
  /\ attempt = [r \in Req |-> 0]
  /\ delay = [r \in Req |-> 0]
  /\ inflight = NoJob
  /\ submitted = NoJob
  /\ cause = NoJob
  /\ failure = [r \in Req |-> NoExc]
  /\ out = [r \in Req |-> NoOut]
  /\ trace = [r \in Req |-> <<>>]
  /\ overlap = [r \in Req |-> FALSE]
  /\ subtitles = [r \in Req |-> None]

\* ------------------------------------------------------------ environment
\* The wall clock advances. It is read only when a request arrives.
Tick ==
  /\ arrivals # {}
  /\ clock < MaxClock
  /\ clock' = clock + 1
  /\ UNCHANGED <<impl, arrivals, observed, running, files, writers, pc, kind, ts,
                 upload, attempt, delay, inflight, submitted, cause, failure, out,
                 trace, overlap, subtitles, Helpers>>

\* A request for endpoint ep arrives and its handler starts:
\* timestamp = datetime.now().strftime("%Y%m%d_%H%M%S").
Arrive(r, ep, content) ==
  /\ r \in arrivals
  /\ pc[r] = "idle"
  /\ CanRun(r)
  /\ arrivals' = arrivals \ {r}
  /\ kind' = [kind EXCEPT ![r] = ep]
  /\ ts' = [ts EXCEPT ![r] = clock]
  /\ upload' = [upload EXCEPT ![r] = IF ep = "sketch" THEN "none" ELSE content]
  /\ running' = Hold(r)
  /\ Goto(r, IF ep = "sketch" THEN "/generate_flux_image" ELSE "save")
  /\ UNCHANGED <<impl, clock, observed, files, writers, attempt, delay, inflight,
                 submitted, trace, overlap, subtitles, Helpers>>

\* ------------------------------------------------------- saving the upload
UploadContent(r) == IF upload[r] = "data" THEN r ELSE "empty"

\* app: open(file_location, "wb") and shutil.copyfileobj, synchronously.
\* services: save_upload_file opens (and truncates) the file with aiofiles,
\* then writes the content in a second awaited step.
save_upload_file(r) ==
  /\ pc[r] = "save"
  /\ CanRun(r)
  /\ IF impl = "app"
     THEN /\ WriteFile(r, "uploaded", UploadContent(r))
          /\ Goto(r, "wait_for_file")
          /\ Loop(r, 0, WaitDelay)
     ELSE /\ WriteFile(r, "uploaded", "empty")
          /\ Goto(r, "save_write")
          /\ UNCHANGED <<attempt, delay>>
  /\ running' = Hold(r)
  /\ trace' = Record(r, <<Ev("write", "uploaded", ts[r])>>)
  /\ UNCHANGED <<Fixed, subtitles, inflight, submitted, overlap>>

save_upload_write(r) ==
  /\ pc[r] = "save_write"
  /\ CanRun(r)
  /\ \E ok \in BOOLEAN :
       IF ok
       THEN /\ WriteFile(r, "uploaded", UploadContent(r))
            /\ Goto(r, "wait_for_file")
            /\ Loop(r, 0, WaitDelay)
            /\ running' = Hold(r)
       ELSE /\ Fail(r, "save", HTTPException(500, "Failed to save uploaded file."))
            /\ UNCHANGED <<files, writers, attempt, delay>>
            /\ running' = Yield
  /\ UNCHANGED <<Fixed, subtitles, inflight, submitted, trace, overlap>>

\* ---------------------------------------------------------- wait_for_file
\* A check that only asks whether the file exists.
exists_nonempty_any_size(content) == content # "absent"

\* filepath.exists() and filepath.stat().st_size > 0
exists_nonempty(content) == content \notin {"absent", "empty"}

FileReady(p) == exists_nonempty(files[p])

\* One iteration of the loop: the check, and on failure the start of the sleep.
wait_for_file_check(r) ==
  /\ pc[r] = "wait_for_file"
  /\ CanRun(r)
  /\ IF FileReady(<<ts[r], "uploaded">>)
     THEN /\ Goto(r, "/start_session")
          /\ Loop(r, 0, 0)
          /\ running' = Hold(r)
          /\ trace' = Record(r, <<Ev("check", "wait_for_file", 1)>>)
     ELSE /\ Goto(r, "wait_for_file_sleep")
          /\ UNCHANGED <<attempt, delay>>
          /\ running' = Yield
          /\ trace' = Record(r, <<Ev("check", "wait_for_file", 0),
                                  Ev("sleep", "wait_for_file", delay[r])>>)
  /\ UNCHANGED <<Fixed, subtitles, files, writers, inflight, submitted, overlap>>

\* The sleep ends: current_delay *= 2, and either the next iteration or
\* `return False`, on which process_3d_job raises the 400.
wait_for_file_wake(r) ==
  /\ pc[r] = "wait_for_file_sleep"
  /\ CanRun(r)
  /\ IF range_has(attempt[r] + 1, WaitRetries)
     THEN /\ Goto(r, "wait_for_file")
          /\ Loop(r, attempt[r] + 1, delay[r] * 2)
          /\ running' = Hold(r)
     ELSE /\ Fail(r, "image_not_found", HTTPException(400, "Image file not found"))
          /\ Loop(r, 0, 0)
          /\ running' = Yield
  /\ UNCHANGED <<Fixed, subtitles, files, writers, inflight, submitted, trace, overlap>>

\* One invocation wait_for_file(filepath, retries, delay), given what the
\* file is at each check: absent, of size zero, or holding data.
WaitDelays == {1, 2}
FileStates == {"absent", "empty", "data"}

WaitArgs ==
  {[pc |-> "loop", retries |-> n, delay |-> d, checks |-> c, attempt |-> 0,
    current_delay |-> d, nchecks |-> 0, sleeps |-> <<>>, ret |-> "pending"] :
     n \in 1..MaxRetries, d \in WaitDelays,
     c \in UNION {[1..m -> FileStates] : m \in 1..MaxRetries}}

\* The loop head and one check, up to `return True`, to the start of the
\* sleep, or to `return False` after the loop.
wait_for_file_iteration ==
  /\ wf.pc = "loop"
  /\ IF wf.attempt < wf.retries
     THEN IF exists_nonempty(wf.checks[wf.attempt + 1])
          THEN wf' = [wf EXCEPT !.nchecks = @ + 1, !.pc = "done", !.ret = "True"]
          ELSE wf' = [wf EXCEPT !.nchecks = @ + 1, !.pc = "sleep",
                                !.sleeps = Append(@, wf.current_delay)]
     ELSE wf' = [wf EXCEPT !.pc = "done", !.ret = "False"]
  /\ UNCHANGED <<impl, clock, arrivals, observed, running, files, writers, pc, kind,
                 ts, upload, attempt, delay, inflight, submitted, cause, failure,
                 out, trace, overlap, subtitles, rt, fc, ch, gx, ui>>

\* await asyncio.sleep(current_delay) returns; current_delay *= 2.
wait_for_file_slept ==
  /\ wf.pc = "sleep"
  /\ wf' = [wf EXCEPT !.pc = "loop", !.current_delay = @ * 2, !.attempt = @ + 1]
  /\ UNCHANGED <<impl, clock, arrivals, observed, running, files, writers, pc, kind,
                 ts, upload, attempt, delay, inflight, submitted, cause, failure,
                 out, trace, overlap, subtitles, rt, fc, ch, gx, ui>>

\* ----------------------------------------------------------- remote calls
\* The client.predict calls whose result is used only as success or failure.
SimpleOps == {"/start_session", "/lambda", "/lambda_1", "/lambda_2", "/lambda_3",
              "/extract_gaussian", "/generate_flux_image", "/image"}
PredictOps == SimpleOps \cup {"/extract_glb"}

\* The lambdas of extract_glb_async called in another order.
AfterPredict_reordered(op) ==
  CASE op = "/start_session" -> "/lambda"
    [] op = "/lambda" -> "submit"
    [] op = "/lambda_1" -> "/lambda_3"
    [] op = "/lambda_3" -> "/lambda_2"
    [] op = "/lambda_2" -> "/extract_glb"
    [] op = "/extract_gaussian" -> "gaussian_copy"
    [] op = "/generate_flux_image" -> "flux_copy"
    [] op = "/image" -> "bg_copy"

\* The statement that follows a successful call.
AfterPredict(op) ==
  CASE op = "/start_session" -> "/lambda"
    [] op = "/lambda" -> "submit"
    [] op = "/lambda_1" -> "/lambda_2"
    [] op = "/lambda_2" -> "/lambda_3"
    [] op = "/lambda_3" -> "/extract_glb"
    [] op = "/extract_gaussian" -> "gaussian_copy"
    [] op = "/generate_flux_image" -> "flux_copy"
    [] op = "/image" -> "bg_copy"

\* generate_model treating a missing GLB path as a client error.
GlbFailed_bad_request == HTTPException(400, "GLB extraction failed.")

\* extract_glb_async catches every exception and returns None; generate_model
\* then raises this inside its own try block.
GlbFailed == HTTPException(500, "GLB extraction failed.")
InExtract == {"/lambda_1", "/lambda_2", "/lambda_3", "/extract_glb", "/extract_gaussian",
              "glb_copy", "gaussian_copy"}

\* extract_glb_async without its try/except.
Escaping_unguarded(c, e) == e

\* The exception that reaches the endpoint when step c raises e.
Escaping(c, e) == IF c \in InExtract THEN GlbFailed ELSE e

\* r's job has been submitted to /image_to_3d and r has not called /extract_glb yet.
InWindow(r) ==
  /\ kind[r] = "model"
  /\ \/ pc[r] \in {"result_wait", "poll_sleep", "/lambda_1", "/lambda_2", "/lambda_3"}
     \/ pc[r] = "predict_wait" /\ inflight[r] \in {"/lambda_1", "/lambda_2", "/lambda_3"}
     \/ pc[r] = "/extract_glb" /\ attempt[r] = 0

\* A client guarded by a lock held from a job's submission to its extraction.
ClientLocked(r) == \A q \in Req \ {r} : ~InWindow(q)

\* The vendor client is a module-level object that every request uses
\* without any lock.
ClientAvailable(r) == TRUE

NoteOverlap(r, op) ==
  IF op \in {"/start_session", "/lambda", "/image_to_3d"}
  THEN [q \in Req |-> overlap[q] \/ (q # r /\ InWindow(q))]
  ELSE overlap

\* ---------------------------------------------------------- generate_sketch
STYLE_DESCRIPTIONS ==
  "Realistic" :> "Detailed textures, lifelike materials." @@
  "Low Poly" :> "Simple shapes, flat colors." @@
  "Voxel" :> "Blocky, pixel-style (Minecraft look)." @@
  "Stylized" :> "Hand-painted, cartoonish, vibrant." @@
  "Toon" :> "Bold outlines, cel-shaded." @@
  "Sci-Fi" :> "Futuristic, metallic, glowing." @@
  "Fantasy" :> "Medieval, magical, ornate." @@
  "Wireframe" :> "Raw mesh, technical look." @@
  "Clay" :> "Matte, sculpted, no textures." @@
  "Metallic" :> "Chrome, gold, shiny surfaces."

\* The requests: a prompt, and a style that is absent (None), empty, a key
\* of the table, or some other string.
Prompts == {"A castle", "A red car"}
StyleInputs == DOMAIN STYLE_DESCRIPTIONS \cup {None, "", " ", "toon", "Cartoon"}

\* The inputs of the request that a call to op reads.
RequestInputs(op) ==
  IF op = "/generate_flux_image" THEN Prompts \X StyleInputs ELSE {<<None, None>>}

\* An unrecognized style appended as it is.
updated_prompt_raw(prompt, style) ==
  IF style \notin {None, ""}
  THEN prompt \o ". " \o (IF style \in DOMAIN STYLE_DESCRIPTIONS
                          THEN STYLE_DESCRIPTIONS[style] ELSE style)
  ELSE prompt

\* updated_prompt = prompt; if style: if style in STYLE_DESCRIPTIONS:
\* updated_prompt = f"{prompt}. {STYLE_DESCRIPTIONS[style]}"
updated_prompt(prompt, style) ==
  IF style \notin {None, ""} /\ style \in DOMAIN STYLE_DESCRIPTIONS
  THEN prompt \o ". " \o STYLE_DESCRIPTIONS[style]
  ELSE prompt

\* The client objects a handler constructs on its way to calling op:
\* services build hf_client before /generate_flux_image, app builds
\* bg_client before /image.
ConstructedFor(im, op) ==
  IF im = "services" /\ op = "/generate_flux_image" THEN <<Ev("construct", "Client(HF_MODEL)", 0)>>
  ELSE IF im = "app" /\ op = "/image" THEN <<Ev("construct", "GradioClient(BG_MODEL)", 0)>>
  ELSE <<>>

\* What is passed to predict besides api_name: the prompt of a sketch, and
\* for the background removal handle_file(str(image_local_path)).
CallEvents(r, op, prompt, style) ==
  IF op = "/generate_flux_image"
  THEN <<Ev("request", prompt, style), Ev("call", op, updated_prompt(prompt, style))>>
  ELSE IF op = "/image"
  THEN <<Ev("call", op, <<ts[r], "flux_image">>)>>
  ELSE <<Ev("call", op, 0)>>

\* client.predict(api_name=op): app calls it on the event loop's thread,
\* services through asyncio.to_thread.
predict_issue(r) ==
  /\ pc[r] \in PredictOps
  /\ CanRun(r)
  /\ ClientAvailable(r)
  /\ inflight' = [inflight EXCEPT ![r] = pc[r]]
  /\ Goto(r, "predict_wait")
  /\ running' = Hold(r)
  /\ \E req \in RequestInputs(pc[r]) :
       trace' = Record(r, ConstructedFor(impl, pc[r]) \o CallEvents(r, pc[r], req[1], req[2]))
  /\ overlap' = NoteOverlap(r, pc[r])
  /\ UNCHANGED <<Fixed, subtitles, files, writers, attempt, delay, submitted>>

predict_return(r) ==
  /\ pc[r] = "predict_wait"
  /\ inflight[r] \in SimpleOps
  /\ CanRun(r)
  /\ inflight' = [inflight EXCEPT ![r] = "none"]
  /\ \E res \in {"ok", "raise", "invalid"} :
       /\ res = "invalid" => inflight[r] = "/image"
       /\ trace' = Record(r, <<Ev("return", inflight[r], IF res = "ok" THEN 1 ELSE 0)>>)
       /\ CASE res = "ok" ->
                 /\ Goto(r, AfterPredict(inflight[r]))
                 /\ Loop(r, 0, IF inflight[r] = "/lambda_3" THEN GlbDelay ELSE 0)
                 /\ running' = Hold(r)
            [] res = "raise" ->
                 /\ Fail(r, inflight[r], Escaping(inflight[r], Exception("remote call failed")))
                 /\ Loop(r, 0, 0)
                 /\ running' = Yield
            [] res = "invalid" ->
                 \* bg_result is not a str: services raise a classified error,
                 \* app passes it to shutil.copy, which raises TypeError.
                 /\ Fail(r, "/image",
                         IF impl = "services"
                         THEN HTTPException(500, "Invalid background removal result.")
                         ELSE Exception("TypeError"))
                 /\ Loop(r, 0, 0)
                 /\ running' = Yield
  /\ UNCHANGED <<Fixed, subtitles, files, writers, submitted, overlap>>

\* ---------------------------------------------------------- process_3d_job
\* job = client.submit(image=handle_file(image_path), ..., api_name="/image_to_3d")
\* followed, with no await in between, by result = job.result(timeout=600),
\* which is called on the event loop's thread in both implementations.
submit(r) ==
  /\ pc[r] = "submit"
  /\ CanRun(r)
  /\ ClientAvailable(r)
  /\ submitted' = [submitted EXCEPT ![r] = files[<<ts[r], "uploaded">>]]
  /\ inflight' = [inflight EXCEPT ![r] = "job.result"]
  /\ Goto(r, "result_wait")
  /\ Loop(r, 0, VideoDelay)
  /\ running' = Hold(r)
  /\ trace' = Record(r, <<Ev("submit", "/image_to_3d", 0), Ev("call", "job.result", 0)>>)
  /\ overlap' = NoteOverlap(r, "/image_to_3d")
  /\ UNCHANGED <<Fixed, subtitles, files, writers>>

HasVideo(res) == res = "video"

\* The result dictionary has a "subtitles" key or has none.
ResultSubtitles == {"absent", "subs"}

\* The absence of the key handed on as it is, not as None.
result_get_no_default(sub) == sub

\* result.get("subtitles"): the value of the key, None when the key is absent.
result_get(sub) == IF sub = "absent" THEN None ELSE sub

\* The polling delay doubled, as in the retry helper.
NextVideoDelay_doubling(d) == Min(d * 2, VideoCap)

\* The delay of the next re-poll: delay = min(delay + 5, 80).
NextVideoDelay(d) == Min(d + VideoStep, VideoCap)

\* A loop that takes an exception of job.result for one more empty result.
leaves_loop_never(res) == FALSE

\* job.result(timeout=600) is called outside any try block: what it raises
\* (TimeoutError included) leaves the loop and process_3d_job.
leaves_loop(res) == res = "raise"

\* The events of one answer of job.result.
ResultEvents(res) ==
  <<Ev("return", "job.result", IF HasVideo(res) THEN 1 ELSE 0)>> \o
  (IF res = "raise" THEN <<Ev("raise", "job.result", 0)>> ELSE <<>>)

\* job.result returns (or raises). attempt[r] counts the re-polls made so far.
result_return(r) ==
  /\ pc[r] = "result_wait"
  /\ CanRun(r)
  /\ inflight' = [inflight EXCEPT ![r] = "none"]
  /\ \E res \in {"video", "novideo", "raise"}, sub \in ResultSubtitles :
       CASE leaves_loop(res) ->
              /\ Fail(r, "job.result", Exception("job.result raised"))
              /\ Loop(r, 0, 0)
              /\ running' = Yield
              /\ trace' = Record(r, ResultEvents(res))
              /\ UNCHANGED subtitles
         [] ~leaves_loop(res) /\ HasVideo(res) ->
              \* generate_3d_preview reads the subtitles of the result,
              \* generate_model discards the result.
              /\ Goto(r, IF kind[r] = "preview" THEN "video_copy" ELSE "/lambda_1")
              /\ Loop(r, 0, 0)
              /\ running' = Hold(r)
              /\ trace' = Record(r, ResultEvents(res) \o <<Ev("result", "subtitles", sub)>>)
              /\ subtitles' = [subtitles EXCEPT ![r] =
                                 IF kind[r] = "preview" THEN result_get(sub) ELSE None]
         [] ~leaves_loop(res) /\ ~HasVideo(res) /\ range_has(attempt[r], VideoRetries) ->
              /\ Goto(r, "poll_sleep")
              /\ UNCHANGED <<attempt, delay, subtitles>>
              /\ running' = Yield
              /\ trace' = Record(r, ResultEvents(res) \o <<Ev("sleep", "poll", delay[r])>>)
         [] ~leaves_loop(res) /\ ~HasVideo(res) /\ ~range_has(attempt[r], VideoRetries) ->
              /\ Fail(r, "no_video",
                      HTTPException(500, "3D conversion failed: No video returned."))
              /\ Loop(r, 0, 0)
              /\ running' = Yield
              /\ trace' = Record(r, ResultEvents(res))
              /\ UNCHANGED subtitles
  /\ UNCHANGED <<Fixed, files, writers, submitted, overlap>>

\* The sleep of the polling loop ends: the delay is updated and job.result is
\* called again.
poll_wake(r) ==
  /\ pc[r] = "poll_sleep"
  /\ CanRun(r)
  /\ Loop(r, attempt[r] + 1, NextVideoDelay(delay[r]))
  /\ inflight' = [inflight EXCEPT ![r] = "job.result"]
  /\ Goto(r, "result_wait")
  /\ running' = Hold(r)
  /\ trace' = Record(r, <<Ev("call", "job.result", 0)>>)
  /\ UNCHANGED <<Fixed, subtitles, files, writers, submitted, overlap>>

\* ------------------------------------------------------- extract_glb_async
\* Whether a failed /extract_glb attempt is followed by a sleep: retry_async
\* sleeps after a raise and after a falsy result, app's inline loop only in
\* its except clause.
SleepsAfter(im, res) == IF im = "services" THEN res # "ok" ELSE res = "raise"

extract_glb_return(r) ==
  /\ pc[r] = "predict_wait"
  /\ inflight[r] = "/extract_glb"
  /\ CanRun(r)
  /\ inflight' = [inflight EXCEPT ![r] = "none"]
  /\ \E res \in {"ok", "falsy", "raise"} :
       /\ CASE res = "ok" ->
                 /\ Goto(r, "glb_copy")
                 /\ Loop(r, 0, 0)
                 /\ running' = Hold(r)
                 /\ trace' = Record(r, <<Ev("return", "/extract_glb", 1)>>)
            [] res # "ok" /\ SleepsAfter(impl, res) ->
                 /\ Goto(r, "retry_sleep")
                 /\ UNCHANGED <<attempt, delay>>
                 /\ running' = Yield
                 /\ trace' = Record(r, <<Ev("return", "/extract_glb", 0),
                                         Ev("sleep", "retry", delay[r])>>)
            [] res # "ok" /\ ~SleepsAfter(impl, res) /\ range_has(attempt[r] + 1, GlbRetries) ->
                 /\ Goto(r, "/extract_glb")
                 /\ Loop(r, attempt[r] + 1, delay[r])
                 /\ running' = Hold(r)
                 /\ trace' = Record(r, <<Ev("return", "/extract_glb", 0)>>)
            [] res # "ok" /\ ~SleepsAfter(impl, res) /\ ~range_has(attempt[r] + 1, GlbRetries) ->
                 /\ Fail(r, "/extract_glb", GlbFailed)
                 /\ Loop(r, 0, 0)
                 /\ running' = Yield
                 /\ trace' = Record(r, <<Ev("return", "/extract_glb", 0)>>)
  /\ UNCHANGED <<Fixed, subtitles, files, writers, submitted, overlap>>

\* The sleep after a failed attempt ends: delay *= 2, then the next attempt,
\* or the end of the loop with no result.
retry_wake(r) ==
  /\ pc[r] = "retry_sleep"
  /\ CanRun(r)
  /\ IF range_has(attempt[r] + 1, GlbRetries)
     THEN /\ Goto(r, "/extract_glb")
          /\ Loop(r, attempt[r] + 1, delay[r] * 2)
          /\ running' = Hold(r)
     ELSE /\ Fail(r, "/extract_glb", GlbFailed)
          /\ Loop(r, 0, 0)
          /\ running' = Yield
  /\ UNCHANGED <<Fixed, subtitles, files, writers, inflight, submitted, trace, overlap>>

\* ------------------------------------------------------ fetch_or_copy_file
CopySteps == {"video_copy", "glb_copy", "gaussian_copy", "flux_copy", "bg_copy"}

CopySuffix(p) ==
  CASE p = "video_copy" -> "3d_preview"
    [] p = "glb_copy" -> "3d_model"
    [] p = "gaussian_copy" -> "gaussian"
    [] p = "flux_copy" -> "flux_image"
    [] p = "bg_copy" -> "flux_image_bg"

\* generate_sketch returning the path of the image it generated.
ReturnedSuffix_intermediate(ep) ==
  CASE ep = "sketch" -> "flux_image"
    [] ep = "preview" -> "3d_preview"
    [] ep = "model" -> "3d_model"

\* What the endpoint returns when the last materialization succeeds.
ReturnedSuffix(ep) ==
  CASE ep = "sketch" -> "flux_image_bg"
    [] ep = "preview" -> "3d_preview"
    [] ep = "model" -> "3d_model"

\* extract_glb_async returning right after the GLB file is written.
IsLastCopy_glb(p) == p \in {"video_copy", "glb_copy", "bg_copy"}

IsLastCopy(p) == p \in {"video_copy", "gaussian_copy", "bg_copy"}

AfterCopy(p) ==
  CASE p = "glb_copy" -> "/extract_gaussian"
    [] p = "flux_copy" -> "/image"
    [] OTHER -> "done"

\* str.startswith(prefix)
startswith(s, prefix) == Len(s) >= Len(prefix) /\ SubSeq(s, 1, Len(prefix)) = prefix

\* A dispatch on the first four characters only.
IsUrl_http(source) == startswith(source, "http")

\* source.startswith("http://") or source.startswith("https://")
IsUrl(source) == startswith(source, "http://") \/ startswith(source, "https://")

\* The references a remote call may return, or any caller may pass.
Sources == {"http://h/f.glb", "https://h/f.glb", "http://", "/tmp/gradio/f.glb",
            "httpx/f.glb", "HTTP://h/f.glb", "ftp://h/f.glb", " http://h/f.glb", ""}

\* One error for both paths.
materialize_error_same(im, source) == HTTPException(500, "Failed to download file.")

\* The error of a failed materialization. services wrap both paths in an
\* HTTPException; app's shutil.copy raises an OSError.
materialize_error(im, source) ==
  IF IsUrl(source) THEN HTTPException(500, "Failed to download file.")
  ELSE IF im = "services" THEN HTTPException(500, "Failed to copy file.")
  ELSE Exception("OSError")

\* The remote reference is a URL (downloaded, an await in both
\* implementations) or a local path (copied).
materialize(r) ==
  /\ pc[r] \in CopySteps
  /\ CanRun(r)
  /\ \E src \in Sources, ok \in BOOLEAN :
       IF ok
       THEN /\ WriteFile(r, CopySuffix(pc[r]), r)
            /\ trace' = Record(r, <<Ev("write", CopySuffix(pc[r]), ts[r])>>)
            /\ IF IsLastCopy(pc[r])
               THEN /\ Succeed(r, <<ts[r], ReturnedSuffix(kind[r])>>)
                    /\ running' = Yield
               ELSE /\ Goto(r, AfterCopy(pc[r]))
                    /\ running' = Hold(r)
       ELSE /\ Fail(r, pc[r], Escaping(pc[r], materialize_error(impl, src)))
            /\ running' = Yield
            /\ UNCHANGED <<files, writers, trace>>
  /\ UNCHANGED <<Fixed, subtitles, attempt, delay, inflight, submitted, overlap>>

\* One invocation fetch_or_copy_file(source, destination), given the answer of
\* the server to GET source (status 0: no response, a transport error; body
\* "broken": a transport error while the body is read) and whether the local
\* file `source` exists.
Responses == [status : {0, 200, 404, 503}, body : {"complete", "broken"}]

\* response.raise_for_status() passes, and aiter_bytes() reaches the end.
download_ok(resp) == resp.status \in 200..299 /\ resp.body = "complete"

FileArgs ==
  [pc : {"call"}, source : Sources, response : Responses, exists : BOOLEAN,
   dest : {"absent", "stale"}, took : {"none"}, requests : {0}, copies : {0},
   raised : {NoExc}, ncalls : {0}, first : {"none"}]

\* A destination opened for appending.
write_append(old, data) == IF old = "absent" THEN data ELSE old \o "+" \o data

\* The destination after open(local_path, "wb") and the writes, and after
\* shutil.copy(source, destination): the data written, whatever it held.
write_wb(old, data) == data

fetch_or_copy_file ==
  /\ fc.pc = "call"
  /\ IF IsUrl(fc.source)
     THEN fc' = [fc EXCEPT !.pc = "done", !.took = "download", !.requests = @ + 1,
                           !.ncalls = @ + 1,
                           !.dest = IF download_ok(fc.response) THEN write_wb(@, "new")
                                    ELSE IF fc.response.status \in 200..299
                                    THEN write_wb(@, "partial")
                                    ELSE @,
                           !.raised = IF download_ok(fc.response) THEN NoExc
                                      ELSE materialize_error(impl, fc.source)]
     ELSE fc' = [fc EXCEPT !.pc = "done", !.took = "copy", !.copies = @ + 1,
                           !.ncalls = @ + 1,
                           !.dest = IF fc.exists THEN write_wb(@, "new") ELSE @,
                           !.raised = IF fc.exists THEN NoExc
                                      ELSE materialize_error(impl, fc.source)]
  /\ UNCHANGED <<impl, clock, arrivals, observed, running, files, writers, pc, kind,
                 ts, upload, attempt, delay, inflight, submitted, cause, failure,
                 out, trace, overlap, subtitles, rt, wf, ch, gx, ui>>

\* ------------------------------------------------------------ retry_async
\* One invocation retry_async(func, retries, initial_delay). func is given by
\* the outcome of each of its calls: a truthy result, a falsy result, a raise.
Outcome == {"ok", "falsy", "raise"}
InitialDelays == {1, 5, 10}

NoRetry == [pc |-> "none", retries |-> 0, outcomes |-> <<>>, initial_delay |-> 0,
            attempt |-> 0, delay |-> 0, calls |-> 0, sleeps |-> <<>>,
            ret |-> "pending", at |-> 0]

\* A handler that catches nothing.
except_nothing(res) == FALSE

\* `except Exception as e` catches what func raises.
except_Exception(res) == res = "raise"

\* `if result is not None`: an empty result is returned as well.
truthy_not_none(res) == res # "raise"

\* `if result: return result`
truthy(res) == res = "ok"

\* The loop head, and one call of func with what follows it up to the sleep.
retry_async_attempt ==
  /\ rt.pc = "loop"
  /\ IF range_has(rt.attempt, rt.retries)
     THEN LET res == rt.outcomes[rt.attempt + 1] IN
          IF truthy(res)
          THEN rt' = [rt EXCEPT !.calls = @ + 1, !.pc = "done", !.ret = "result",
                                !.at = rt.attempt + 1]
          ELSE IF res = "raise" /\ ~except_Exception(res)
          THEN rt' = [rt EXCEPT !.calls = @ + 1, !.pc = "done", !.ret = "raised"]
          ELSE rt' = [rt EXCEPT !.calls = @ + 1, !.pc = "sleep",
                                !.sleeps = Append(@, rt.delay)]
     ELSE rt' = [rt EXCEPT !.pc = "done", !.ret = "None"]
  /\ UNCHANGED <<impl, clock, arrivals, observed, running, files, writers, pc, kind,
                 ts, upload, attempt, delay, inflight, submitted, cause, failure,
                 out, trace, overlap, subtitles, fc, wf, ch, gx, ui>>

\* The delay grown as in the video polling loop.
next_delay_additive(d) == Min(d + VideoStep, VideoCap)

\* delay *= 2
next_delay(d) == d * 2

\* await asyncio.sleep(delay) returns; delay *= 2.
retry_async_wake ==
  /\ rt.pc = "sleep"
  /\ rt' = [rt EXCEPT !.pc = "loop", !.delay = next_delay(@), !.attempt = @ + 1]
  /\ UNCHANGED <<impl, clock, arrivals, observed, running, files, writers, pc, kind,
                 ts, upload, attempt, delay, inflight, submitted, cause, failure,
                 out, trace, overlap, subtitles, fc, wf, ch, gx, ui>>

RetryArgs ==
  {[pc |-> "loop", retries |-> n, outcomes |-> o, initial_delay |-> d,
    attempt |-> 0, delay |-> d, calls |-> 0, sleeps |-> <<>>,
    ret |-> "pending", at |-> 0] :
     n \in 1..MaxRetries, d \in InitialDelays, o \in UNION {[1..m -> Outcome] : m \in 1..MaxRetries}}

InitRetry ==
  /\ InitRequests
  /\ arrivals = {}
  /\ observed = {}
  /\ rt \in {a \in RetryArgs : Len(a.outcomes) = a.retries}
  /\ fc = NoCall
  /\ wf = NoCall
  /\ ch = NoCall
  /\ gx = NoCall
  /\ ui = NoCall

NextRetry == retry_async_attempt \/ retry_async_wake

SpecRetry == InitRetry /\ [][NextRetry]_vars

\* fetch_or_copy_file alone.
\* The caller calls fetch_or_copy_file once more, with the same source (which
\* has not changed) and the same destination. `first` keeps what the
\* destination held after the first call.
fetch_or_copy_file_again ==
  /\ fc.pc = "done"
  /\ fc.ncalls = 1
  /\ fc' = [fc EXCEPT !.pc = "call", !.took = "none", !.requests = 0, !.copies = 0,
                      !.raised = NoExc, !.first = fc.dest]
  /\ UNCHANGED <<impl, clock, arrivals, observed, running, files, writers, pc, kind,
                 ts, upload, attempt, delay, inflight, submitted, cause, failure,
                 out, trace, overlap, subtitles, rt, wf, ch, gx, ui>>

InitFile ==
  /\ InitRequests
  /\ arrivals = {}
  /\ observed = {}
  /\ rt = NoRetry
  /\ fc \in FileArgs
  /\ wf = NoCall
  /\ ch = NoCall
  /\ gx = NoCall
  /\ ui = NoCall

NextFile == fetch_or_copy_file \/ fetch_or_copy_file_again

SpecFile == InitFile /\ [][NextFile]_vars

\* ------------------------------------------------------------ stream_chat
\* One chat exchange: handle_chat iterates over the generator stream_chat.
\* The backend is given by what each step of the exchange meets: a chunk of
\* text, or "error", a transport exception of httpx (at the first step while
\* connecting, later while the body is read).
ChunkTexts == {"a", "b"}
ChatScripts == UNION {[1..m -> ChunkTexts \cup {"error"}] : m \in 0..MaxChunks}

ChatArgs ==
  [pc : {"streaming"}, script : ChatScripts, pos : {0}, yielded : {<<>>},
   raised : {FALSE}, result : {"pending"}]

\* next() on the generator: client.stream(...) and response.iter_text() run
\* up to the next yield. There is no try/except in stream_chat, so an
\* exception of httpx leaves the generator and reaches the for loop of the
\* caller.
stream_chat_next ==
  /\ ch.pc = "streaming"
  /\ IF ch.pos >= Len(ch.script)
     THEN ch' = [ch EXCEPT !.pc = "ended"]
     ELSE IF ch.script[ch.pos + 1] = "error"
     THEN ch' = [ch EXCEPT !.pc = "raised", !.raised = TRUE, !.pos = @ + 1]
     ELSE ch' = [ch EXCEPT !.pos = @ + 1, !.yielded = Append(@, ch.script[ch.pos + 1])]
  /\ UNCHANGED <<impl, clock, arrivals, observed, running, files, writers, pc, kind,
                 ts, upload, attempt, delay, inflight, submitted, cause, failure,
                 out, trace, overlap, subtitles, rt, fc, wf, gx, ui>>

\* handle_chat returns {"response": ...} after the loop, or {"error": str(e)}
\* from its except clause.
handle_chat_return ==
  /\ ch.pc \in {"ended", "raised"}
  /\ ch' = [ch EXCEPT !.pc = "done",
                      !.result = IF ch.pc = "raised" THEN "error" ELSE "response"]
  /\ UNCHANGED <<impl, clock, arrivals, observed, running, files, writers, pc, kind,
                 ts, upload, attempt, delay, inflight, submitted, cause, failure,
                 out, trace, overlap, subtitles, rt, fc, wf, gx, ui>>

InitChat ==
  /\ InitRequests
  /\ arrivals = {}
  /\ observed = {}
  /\ rt = NoRetry
  /\ fc = NoCall
  /\ wf = NoCall
  /\ ch \in ChatArgs
  /\ gx = NoCall
  /\ ui = NoCall

NextChat == stream_chat_next \/ handle_chat_return

SpecChat == InitChat /\ [][NextChat]_vars

\* wait_for_file alone.
InitWait ==
  /\ InitRequests
  /\ arrivals = {}
  /\ observed = {}
  /\ rt = NoRetry
  /\ fc = NoCall
  /\ wf \in {a \in WaitArgs : Len(a.checks) = a.retries}
  /\ ch = NoCall
  /\ gx = NoCall
  /\ ui = NoCall

NextWait == wait_for_file_iteration \/ wait_for_file_slept

SpecWait == InitWait /\ [][NextWait]_vars

\* ------------------------------------------- extract_glb, both versions
\* The /extract_glb step of the two copies of extract_glb_async run on the
\* same sequence of outcomes of client.predict: rt is the services copy
\* (retry_async with retries=3, initial_delay=5), gx the inline loop of the
\* app copy.
GlbArgs ==
  {[pc |-> "loop", outcomes |-> o, attempt |-> 0, delay |-> GlbDelay, calls |-> 0,
    sleeps |-> <<>>, ret |-> "pending"] : o \in [1..GlbRetries -> Outcome]}

\* The head of the inline loop and one client.predict(api_name="/extract_glb")
\* with what follows it: break on a truthy result, the except clause up to
\* its sleep after a raise, the next iteration after a falsy result. After
\* the loop, `if not glb_result: return None`.
app_extract_glb_attempt ==
  /\ gx.pc = "loop"
  /\ IF range_has(gx.attempt, GlbRetries)
     THEN LET res == gx.outcomes[gx.attempt + 1] IN
          IF truthy(res)
          THEN gx' = [gx EXCEPT !.calls = @ + 1, !.pc = "done", !.ret = "result"]
          ELSE IF SleepsAfter("app", res)
          THEN gx' = [gx EXCEPT !.calls = @ + 1, !.pc = "sleep",
                                !.sleeps = Append(@, gx.delay)]
          ELSE gx' = [gx EXCEPT !.calls = @ + 1, !.attempt = @ + 1]
     ELSE gx' = [gx EXCEPT !.pc = "done", !.ret = "None"]
  /\ UNCHANGED <<impl, clock, arrivals, observed, running, files, writers, pc, kind,
                 ts, upload, attempt, delay, inflight, submitted, cause, failure,
                 out, trace, overlap, subtitles, rt, fc, wf, ch, ui>>

\* await asyncio.sleep(delay) of the except clause returns; delay *= 2.
app_extract_glb_wake ==
  /\ gx.pc = "sleep"
  /\ gx' = [gx EXCEPT !.pc = "loop", !.delay = next_delay(@), !.attempt = @ + 1]
  /\ UNCHANGED <<impl, clock, arrivals, observed, running, files, writers, pc, kind,
                 ts, upload, attempt, delay, inflight, submitted, cause, failure,
                 out, trace, overlap, subtitles, rt, fc, wf, ch, ui>>

InitGlb ==
  /\ InitRequests
  /\ arrivals = {}
  /\ observed = {}
  /\ gx \in GlbArgs
  /\ rt \in {a \in RetryArgs : /\ a.retries = GlbRetries
                               /\ a.initial_delay = GlbDelay
                               /\ a.outcomes = gx.outcomes}
  /\ fc = NoCall
  /\ wf = NoCall
  /\ ch = NoCall
  /\ ui = NoCall

NextGlb ==
  \/ retry_async_attempt
  \/ retry_async_wake
  \/ app_extract_glb_attempt
  \/ app_extract_glb_wake

SpecGlb == InitGlb /\ [][NextGlb]_vars

\* ------------------------------------------- the sketch task of the UI
\* The "Generate Image" button: a thread runs generate_sketch and stores its
\* result in a dict shared with the script thread, which shows a progress bar
\* until the event is set or the bar runs out, then joins the thread and reads
\* the dict. The state is the one after thread.start(). The logger calls of
\* handle_generate_sketch write to the log only and are part of the step
\* they follow.
ResultKeys == {"image_filepath", "error"}

UiArgs ==
  [pc : {"run"}, outcome : {"pending"}, results : {{}}, event : {FALSE},
   reader : {"progress"}, i : {0}, seen : {{}}]

\* An except clause that logs the exception and stores nothing.
stored_key_success_only(p) == IF p = "store" THEN {"image_filepath"} ELSE {}

\* results["image_filepath"] = filepath in the try block,
\* results["error"] = str(e) in the except clause.
stored_key(p) == IF p = "store" THEN {"image_filepath"} ELSE {"error"}

\* asyncio.run(generate_sketch(prompt, style)) returns a path or raises an
\* Exception (generate_sketch raises HTTPException only).
task_run ==
  /\ ui.pc = "run"
  /\ \E res \in {"ok", "raise"} :
       ui' = [ui EXCEPT !.outcome = res,
                        !.pc = IF except_Exception(res) THEN "except" ELSE "store"]
  /\ UNCHANGED <<impl, clock, arrivals, observed, running, files, writers, pc, kind,
                 ts, upload, attempt, delay, inflight, submitted, cause, failure,
                 out, trace, overlap, subtitles, rt, fc, wf, ch, gx>>

\* The assignment to the shared dict, in the try block or the except clause.
task_store ==
  /\ ui.pc \in {"store", "except"}
  /\ ui' = [ui EXCEPT !.results = @ \cup stored_key(ui.pc), !.pc = "finally"]
  /\ UNCHANGED <<impl, clock, arrivals, observed, running, files, writers, pc, kind,
                 ts, upload, attempt, delay, inflight, submitted, cause, failure,
                 out, trace, overlap, subtitles, rt, fc, wf, ch, gx>>

\* finally: event.set(); the thread ends.
task_finally ==
  /\ ui.pc = "finally"
  /\ ui' = [ui EXCEPT !.event = TRUE, !.pc = "ended"]
  /\ UNCHANGED <<impl, clock, arrivals, observed, running, files, writers, pc, kind,
                 ts, upload, attempt, delay, inflight, submitted, cause, failure,
                 out, trace, overlap, subtitles, rt, fc, wf, ch, gx>>

\* One iteration of run_fake_progress_until_event up to its sleep: return
\* when the event is set, and after the last iteration.
progress_iteration ==
  /\ ui.reader = "progress"
  /\ ui' = [ui EXCEPT !.reader = IF range_has(ui.i, MaxPolls) /\ ~ui.event
                                 THEN "sleep" ELSE "join"]
  /\ UNCHANGED <<impl, clock, arrivals, observed, running, files, writers, pc, kind,
                 ts, upload, attempt, delay, inflight, submitted, cause, failure,
                 out, trace, overlap, subtitles, rt, fc, wf, ch, gx>>

\* time.sleep(update_interval) returns.
progress_slept ==
  /\ ui.reader = "sleep"
  /\ ui' = [ui EXCEPT !.reader = "progress", !.i = @ + 1]
  /\ UNCHANGED <<impl, clock, arrivals, observed, running, files, writers, pc, kind,
                 ts, upload, attempt, delay, inflight, submitted, cause, failure,
                 out, trace, overlap, subtitles, rt, fc, wf, ch, gx>>

\* thread.join() returns once the thread has ended; the script then reads
\* the dict.
join_and_read ==
  /\ ui.reader = "join"
  /\ ui.pc = "ended"
  /\ ui' = [ui EXCEPT !.reader = "done", !.seen = ui.results]
  /\ UNCHANGED <<impl, clock, arrivals, observed, running, files, writers, pc, kind,
                 ts, upload, attempt, delay, inflight, submitted, cause, failure,
                 out, trace, overlap, subtitles, rt, fc, wf, ch, gx>>

InitUi ==
  /\ InitRequests
  /\ arrivals = {}
  /\ observed = {}
  /\ rt = NoRetry
  /\ fc = NoCall
  /\ wf = NoCall
  /\ ch = NoCall
  /\ gx = NoCall
  /\ ui \in UiArgs

TaskStep == task_run \/ task_store \/ task_finally

NextUi ==
  \/ task_run
  \/ task_store
  \/ task_finally
  \/ progress_iteration
  \/ progress_slept
  \/ join_and_read

\* The thread is scheduled and generate_sketch returns or raises; the script
\* thread keeps running too.
SpecUi ==
  /\ InitUi
  /\ [][NextUi]_vars
  /\ WF_vars(TaskStep)
  /\ WF_vars(progress_iteration \/ progress_slept \/ join_and_read)

\* ------------------------------------------------------------------- Next
RequestStep(r) ==
  \/ \E ep \in Endpoint, content \in {"empty", "data"} : Arrive(r, ep, content)
  \/ save_upload_file(r)
  \/ save_upload_write(r)
  \/ wait_for_file_check(r)
  \/ wait_for_file_wake(r)
  \/ predict_issue(r)
  \/ predict_return(r)
  \/ submit(r)
  \/ result_return(r)
  \/ poll_wake(r)
  \/ extract_glb_return(r)
  \/ retry_wake(r)
  \/ materialize(r)

Next == Tick \/ \E r \in Req : RequestStep(r)

\* One request, every event of it recorded.
InitJob ==
  /\ InitRequests
  /\ arrivals = {"A"}
  /\ observed = {"A"}
  /\ rt = NoRetry
  /\ fc = NoCall
  /\ wf = NoCall
  /\ ch = NoCall
  /\ gx = NoCall
  /\ ui = NoCall

SpecJob == InitJob /\ [][Next]_vars

\* The same, when every remote call, sleep and file operation returns or
\* raises in finite time: a step of a request that can be taken is taken.
SpecJobFair == SpecJob /\ \A r \in Req : WF_vars(RequestStep(r))

\* Two requests handled concurrently.
Init ==
  /\ InitRequests
  /\ arrivals = Req
  /\ observed = {}
  /\ rt = NoRetry
  /\ fc = NoCall
  /\ wf = NoCall
  /\ ch = NoCall
  /\ gx = NoCall
  /\ ui = NoCall

Spec == Init /\ [][Next]_vars

\* ============================================================ properties
\* Reading a request's trace.
Events(r, kinds) == SelectSeq(trace[r], LAMBDA ev : ev.e \in kinds)
EventsOf(r, kinds, op) == SelectSeq(trace[r], LAMBDA ev : ev.e \in kinds /\ ev.op = op)
Ops(evs) == [i \in 1..Len(evs) |-> evs[i].op]
Values(evs) == [i \in 1..Len(evs) |-> evs[i].v]

\* r is a finished model job none of whose remote calls failed or came back empty.
EveryStepSucceeded(r) ==
  /\ kind[r] = "model"
  /\ pc[r] = "done"
  /\ \A i \in 1..Len(trace[r]) :
       trace[r][i].e \in {"return", "check"} => trace[r][i].v = 1

\* Within a job a remote call is issued only after the previous one returned.
NoOverlapWithin(r) ==
  LET cr == Events(r, {"call", "return"}) IN
  \A i \in 1..Len(cr) :
    IF i % 2 = 1
    THEN cr[i].e = "call"
    ELSE cr[i].e = "return" /\ cr[i].op = cr[i - 1].op

\* C1: a model-generation job in which every step succeeds issues
\* start_session, lambda, image_to_3d (submission, then the wait for its
\* result), lambda_1, lambda_2, lambda_3, extract_glb, extract_gaussian in
\* exactly this order, each once, and no call of a job is issued while
\* another call of that job is outstanding.
C1_PipelineOrder ==
  \A r \in observed :
    /\ NoOverlapWithin(r)
    /\ EveryStepSucceeded(r) =>
         Ops(Events(r, {"submit", "call"})) =
           <<"/start_session", "/lambda", "/image_to_3d", "job.result", "/lambda_1",
             "/lambda_2", "/lambda_3", "/extract_glb", "/extract_gaussian">>

C1_Witness == \E r \in observed : EveryStepSucceeded(r) /\ impl = "services"

\* C2: at the end of retry_async(func, retries = n >= 1): if every call of
\* func returned a falsy value, func was called exactly n times and None is
\* returned; if the first truthy result came on call k <= n, func was called
\* exactly k times and that result is returned.
FirstOk(o) ==
  IF \E i \in 1..Len(o) : o[i] = "ok"
  THEN CHOOSE i \in 1..Len(o) : o[i] = "ok" /\ \A j \in 1..(i - 1) : o[j] # "ok"
  ELSE 0

C2_RetryCounts ==
  rt.pc = "done" =>
    /\ (\A i \in 1..rt.retries : rt.outcomes[i] = "falsy") =>
         rt.calls = rt.retries /\ rt.ret = "None"
    /\ FirstOk(rt.outcomes) > 0 =>
         rt.calls = FirstOk(rt.outcomes) /\ rt.ret = "result" /\ rt.at = FirstOk(rt.outcomes)

C2_Witness ==
  /\ rt.pc = "done"
  /\ rt.retries = 3
  /\ rt.outcomes = <<"falsy", "falsy", "falsy">>
  /\ rt.calls = 3

\* C3: no exception of func escapes retry_async; a call that raises and a call
\* that returns a falsy value are handled alike: each is one attempt, followed
\* by a sleep of the current delay and the doubling of the delay, so that the
\* sleeps depend only on the number of failed calls; when every call fails, in
\* any mix of the two ways, None is returned after `retries` calls.
RECURSIVE Pow2(_)
Pow2(i) == IF i <= 0 THEN 1 ELSE 2 * Pow2(i - 1)

FailedCalls == IF rt.ret = "result" THEN rt.calls - 1 ELSE rt.calls

C3_RaiseLikeFalsy ==
  /\ rt.ret # "raised"
  /\ rt.pc = "done" =>
       /\ rt.sleeps = [i \in 1..FailedCalls |-> rt.initial_delay * Pow2(i - 1)]
       /\ (\A i \in 1..rt.retries : rt.outcomes[i] \in {"falsy", "raise"}) =>
            rt.ret = "None" /\ rt.calls = rt.retries

C3_Witness ==
  /\ rt.pc = "done"
  /\ rt.outcomes = <<"raise", "falsy", "raise">>
  /\ rt.ret = "None"
  /\ rt.sleeps = <<5, 10, 20>>

\* C4: in process_3d_job a result without a video is re-polled at most 8
\* times (at most 9 job.result calls); the sleep before the i-th re-poll lasts
\* min(10 + 5 * (i - 1), 80) seconds; no job.result call follows a result
\* that has a video.
C4_VideoPolling ==
  \A r \in observed :
    LET polls == EventsOf(r, {"call"}, "job.result")
        answers == EventsOf(r, {"return"}, "job.result")
        naps == Values(EventsOf(r, {"sleep"}, "poll"))
    IN /\ Len(polls) <= 9
       /\ Len(naps) <= 8
       /\ Len(polls) \in {0, Len(naps) + 1} \/ pc[r] = "poll_sleep"
       /\ \A i \in 1..Len(naps) : naps[i] = Min(10 + 5 * (i - 1), 80)
       /\ \A i \in 1..Len(answers) : answers[i].v = 1 => i = Len(polls)

C4_Witness ==
  \E r \in observed :
    /\ Len(EventsOf(r, {"call"}, "job.result")) = 9
    /\ Values(EventsOf(r, {"sleep"}, "poll")) = <<10, 15, 20, 25, 30, 35, 40, 45>>
    /\ pc[r] = "/lambda_1"

\* C5: a model-generation job none of whose polled results had a video fails
\* with a server error, and what its caller receives (status and detail)
\* differs from what the caller of a job receives whose extract_glb_async
\* returned None.
Received(r) == <<out[r].status, out[r].detail>>

C5_NoVideoDistinguishable ==
  \A r \in Req :
    (kind[r] = "model" /\ cause[r] = "no_video") =>
      /\ pc[r] = "failed"
      /\ out[r].status >= 500
      /\ \A q \in Req :
           (kind[q] = "model" /\ cause[q] \in InExtract) => Received(q) # Received(r)

\* C6: every endpoint hands an HTTPException that reaches its except clauses
\* to the caller with status and detail unchanged, and turns any other
\* exception into a 500 with the endpoint's fixed message.
C6_PassThrough ==
  \A r \in Req :
    pc[r] = "failed" =>
      Received(r) =
        IF failure[r].class = "HTTPException"
        THEN <<failure[r].status, failure[r].detail>>
        ELSE <<500, FixedMessage(kind[r])>>

\* C7: while a preview or model job waits for one of its remote calls to
\* complete, a step of every other request that is being handled can be taken.
Handled(q) == pc[q] \notin {"idle", "done", "failed"}

C7_RemoteCallsDoNotBlock ==
  \A r \in Req, q \in Req :
    (r # q /\ kind[r] \in {"preview", "model"} /\ inflight[r] # "none" /\ Handled(q))
      => ENABLED RequestStep(q)

\* C8: no file under the data directory is written by two requests, and the
\* image a job hands to /image_to_3d is the upload that job saved.
C8_JobsIndependent ==
  /\ \A p \in Paths : Cardinality(writers[p]) <= 1
  /\ \A r \in Req : submitted[r] \in {"none", r}

\* C9: nothing makes a job wait for another job's use of the vendor client:
\* in services, whenever job r is between its /image_to_3d submission and its
\* /extract_glb call and job q is about to call /start_session, /lambda or
\* /image_to_3d, q's call can be issued.
C9_NoMutualExclusion ==
  \A r \in Req, q \in Req :
    (/\ impl = "services"
     /\ r # q
     /\ InWindow(r)
     /\ pc[q] \in {"/start_session", "/lambda", "submit"})
    => ENABLED (predict_issue(q) \/ submit(q))

C9_Witness ==
  /\ impl = "services"
  /\ kind["A"] = "model"
  /\ kind["B"] = "model"
  /\ overlap["A"]
  /\ inflight["A"] = "/extract_glb"

\* C10: /extract_gaussian is called at most once in a job; when that call or
\* the materialization of its result fails, extract_glb_async returns None
\* although <ts>_3d_model.glb has been written, and generate_model fails with
\* status 500, returning no path.
C10_GaussianOnceAndFatal ==
  \A r \in observed :
    /\ Len(EventsOf(r, {"call"}, "/extract_gaussian")) <= 1
    /\ cause[r] \in {"/extract_gaussian", "gaussian_copy"} =>
         /\ pc[r] = "failed"
         /\ failure[r] = GlbFailed
         /\ out[r].status = 500
         /\ out[r].path = <<>>
         /\ files[<<ts[r], "3d_model">>] = r
         /\ Len(EventsOf(r, {"call"}, "/extract_gaussian")) = 1

C10_Witness ==
  \E r \in observed :
    /\ cause[r] = "/extract_gaussian"
    /\ pc[r] = "failed"
    /\ files[<<ts[r], "3d_model">>] = r

\* C11: /start_session and /lambda are each called at most once in a job, and
\* when either call raises, the job has failed and no remote operation is
\* issued after it.
FatalOps == {"/start_session", "/lambda"}

C11_SessionAndLambdaFatal ==
  \A r \in observed :
    /\ \A op \in FatalOps : Len(EventsOf(r, {"call"}, op)) <= 1
    /\ \A i \in 1..Len(trace[r]) :
         (trace[r][i].e = "return" /\ trace[r][i].op \in FatalOps /\ trace[r][i].v = 0) =>
           /\ pc[r] = "failed"
           /\ cause[r] = trace[r][i].op
           /\ \A j \in (i + 1)..Len(trace[r]) : trace[r][j].e \notin {"call", "submit"}

C11_Witness ==
  \E r \in observed :
    /\ kind[r] = "model"
    /\ pc[r] = "failed"
    /\ cause[r] = "/lambda"
    /\ Ops(Events(r, {"submit", "call"})) = <<"/start_session", "/lambda">>

\* C12: fetch_or_copy_file chooses its path by the prefix of the source alone:
\* a source that starts with "http://" or "https://" is downloaded (one HTTP
\* request, no copy), every other string is copied (no HTTP request), whatever
\* the server would answer and whether or not the local file exists.
UrlSources == {"http://h/f.glb", "https://h/f.glb", "http://"}
LocalSources == {"/tmp/gradio/f.glb", "httpx/f.glb", "HTTP://h/f.glb", "ftp://h/f.glb",
                 " http://h/f.glb", ""}

C12_DispatchOnPrefix ==
  /\ Sources = UrlSources \cup LocalSources
  /\ fc.pc = "done" =>
       /\ fc.source \in UrlSources =>
            fc.took = "download" /\ fc.requests = 1 /\ fc.copies = 0
       /\ fc.source \in LocalSources =>
            fc.took = "copy" /\ fc.requests = 0 /\ fc.copies = 1

C12_Witness ==
  /\ fc.pc = "done"
  /\ fc.source = "httpx/f.glb"
  /\ fc.response.status = 200
  /\ ~fc.exists
  /\ fc.took = "copy"

\* C13: in services a download that gets no 2xx answer, or that meets a
\* transport error, raises HTTPException(500, "Failed to download file."); a
\* copy whose source does not exist raises HTTPException(500, "Failed to copy
\* file."); and fetch_or_copy_file returns normally only when the destination
\* has been produced.
C13_HardFailures ==
  (fc.pc = "done" /\ impl = "services") =>
    /\ (/\ fc.took = "download"
        /\ fc.response.status \notin 200..299 \/ fc.response.body = "broken")
         => fc.raised = HTTPException(500, "Failed to download file.")
    /\ (fc.took = "copy" /\ ~fc.exists)
         => fc.raised = HTTPException(500, "Failed to copy file.")
    /\ fc.raised = NoExc => fc.dest = "new"

C13_Witness ==
  /\ fc.pc = "done"
  /\ impl = "services"
  /\ fc.took = "copy"
  /\ ~fc.exists
  /\ fc.dest = "stale"
  /\ fc.raised.detail = "Failed to copy file."

\* C14: wait_for_file(path, retries, delay) returns True at the first check
\* that finds the file with data, after one sleep per earlier check (none when
\* it is the first check); a file of size zero is treated like an absent one;
\* when no check finds data it makes exactly `retries` checks, each followed
\* by a sleep, the i-th of delay * 2^(i-1), and returns False; it never raises.
FirstData(c) ==
  IF \E i \in 1..Len(c) : c[i] = "data"
  THEN CHOOSE i \in 1..Len(c) : c[i] = "data" /\ \A j \in 1..(i - 1) : c[j] # "data"
  ELSE 0

C14_WaitForFile ==
  /\ wf.pc # "none" => wf.ret \in {"pending", "True", "False"}
  /\ wf.pc = "done" =>
       LET first == FirstData(wf.checks) IN
       /\ first > 0 =>
            /\ wf.ret = "True"
            /\ wf.nchecks = first
            /\ wf.sleeps = [i \in 1..(first - 1) |-> wf.delay * Pow2(i - 1)]
       /\ first = 0 =>
            /\ wf.ret = "False"
            /\ wf.nchecks = wf.retries
            /\ wf.sleeps = [i \in 1..wf.retries |-> wf.delay * Pow2(i - 1)]

C14_Witness ==
  /\ wf.pc = "done"
  /\ wf.delay = 2
  /\ wf.checks = <<"absent", "empty", "empty">>
  /\ wf.ret = "False"
  /\ wf.sleeps = <<2, 4, 8>>

\* The sleep before the i-th re-poll of process_3d_job.
RECURSIVE VideoSleep(_)
VideoSleep(i) == IF i <= 1 THEN VideoDelay ELSE NextVideoDelay(VideoSleep(i - 1))

\* C15, as stated: the i-th sleep of one retry_async invocation lasts
\* initial_delay * 2^(i-1), and from the second sleep on it differs from the
\* i-th sleep of the video polling (10, 15, 20, ...).
C15_DiffersFromSecondOn ==
  \A i \in 1..Len(rt.sleeps) :
    /\ rt.sleeps[i] = rt.initial_delay * Pow2(i - 1)
    /\ i >= 2 => rt.sleeps[i] # VideoSleep(i)

\* C15, amended: the i-th sleep of one retry_async invocation lasts
\* initial_delay * 2^(i-1); started from the delay the video polling starts
\* from (10), it differs from the i-th sleep of the video polling from the
\* second sleep on.
C15_Multiplicative ==
  \A i \in 1..Len(rt.sleeps) :
    /\ rt.sleeps[i] = rt.initial_delay * Pow2(i - 1)
    /\ (i >= 2 /\ rt.initial_delay = VideoDelay) => rt.sleeps[i] # VideoSleep(i)

C15_Witness ==
  /\ rt.pc = "done"
  /\ rt.initial_delay = 10
  /\ rt.sleeps = <<10, 20, 40>>
  /\ <<VideoSleep(1), VideoSleep(2), VideoSleep(3)>> = <<10, 15, 20>>

\* C16: the prompt generate_sketch sends to /generate_flux_image is
\* "<prompt>. <description>" when the style is a key of the style table
\* ("A castle" with "Toon" gives "A castle. Bold outlines, cel-shaded."), and
\* the prompt unchanged when the style is absent, empty or not a key; in every
\* case the call is issued.
StyleKeys == {"Realistic", "Low Poly", "Voxel", "Stylized", "Toon", "Sci-Fi", "Fantasy",
              "Wireframe", "Clay", "Metallic"}

C16_PromptBuilding ==
  \A r \in observed : \A i \in 1..Len(trace[r]) :
    trace[r][i].e = "request" =>
      LET prompt == trace[r][i].op
          style == trace[r][i].v
          call == trace[r][i + 1]
      IN /\ call.e = "call" /\ call.op = "/generate_flux_image"
         /\ style \in StyleKeys => call.v = prompt \o ". " \o STYLE_DESCRIPTIONS[style]
         /\ style \notin StyleKeys => call.v = prompt
         /\ (prompt = "A castle" /\ style = "Toon") =>
              call.v = "A castle. Bold outlines, cel-shaded."
         /\ (prompt = "A red car" /\ style = "Sci-Fi") =>
              call.v = "A red car. Futuristic, metallic, glowing."

C16_Witness ==
  \E r \in observed :
    /\ kind[r] = "sketch"
    /\ Len(trace[r]) >= 2
    /\ \E i \in 1..(Len(trace[r]) - 1) :
         /\ trace[r][i] = Ev("request", "A castle", "Toon")
         /\ trace[r][i + 1] = Ev("call", "/generate_flux_image", "A castle. Bold outlines, cel-shaded.")
    /\ pc[r] = "done"

\* C17: a generate_sketch run that returns a path has, in this order, called
\* /generate_flux_image, written <ts>_flux_image.png, called /image on that
\* file and written <ts>_flux_image_bg.png; the returned path is
\* <ts>_flux_image_bg.png with the timestamp of the intermediate image; and
\* no path is returned unless the /image call has returned successfully.
Steps(evs) == [i \in 1..Len(evs) |-> <<evs[i].e, evs[i].op>>]

C17_SketchOrder ==
  \A r \in observed :
    kind[r] = "sketch" =>
      /\ out[r].path # <<>> =>
           /\ pc[r] = "done"
           /\ \E i \in 1..Len(trace[r]) : trace[r][i] = Ev("return", "/image", 1)
      /\ pc[r] = "done" =>
           LET evs == Events(r, {"call", "write"}) IN
           /\ Steps(evs) = << <<"call", "/generate_flux_image">>, <<"write", "flux_image">>,
                              <<"call", "/image">>, <<"write", "flux_image_bg">> >>
           /\ evs[3].v = <<evs[2].v, evs[2].op>>
           /\ out[r].path = <<evs[2].v, "flux_image_bg">>
           /\ evs[4].v = evs[2].v

C17_Witness ==
  \E r \in observed :
    /\ kind[r] = "sketch"
    /\ pc[r] = "done"
    /\ out[r].path = <<ts[r], "flux_image_bg">>
    /\ files[<<ts[r], "flux_image">>] = r
    /\ files[<<ts[r], "flux_image_bg">>] = r

\* C18: a generate_3d_preview job never calls /lambda_1, /lambda_2, /lambda_3,
\* /extract_glb or /extract_gaussian; when it succeeds it has written
\* <ts>_3d_preview.mp4 and returns that path with the subtitles of the job's
\* result, None when the result has none.
ExtractionOps == {"/lambda_1", "/lambda_2", "/lambda_3", "/extract_glb", "/extract_gaussian"}

C18_PreviewStopsAtVideo ==
  \A r \in observed :
    kind[r] = "preview" =>
      /\ \A i \in 1..Len(trace[r]) :
           trace[r][i].e \in {"call", "submit"} => trace[r][i].op \notin ExtractionOps
      /\ pc[r] \notin ExtractionOps
      /\ pc[r] = "done" =>
           LET results == Events(r, {"result"}) IN
           /\ files[<<ts[r], "3d_preview">>] = r
           /\ out[r].status = 200
           /\ out[r].path = <<ts[r], "3d_preview">>
           /\ Len(results) = 1
           /\ out[r].subtitles = IF results[1].v = "absent" THEN None ELSE results[1].v

C18_Witness ==
  \E r \in observed :
    /\ kind[r] = "preview"
    /\ pc[r] = "done"
    /\ Events(r, {"result"}) = <<Ev("result", "subtitles", "absent")>>
    /\ out[r].subtitles = None
    /\ out[r].path = <<ts[r], "3d_preview">>

\* C19: stream_chat never raises to its caller; when a transport exception
\* occurs while the chat backend is contacted or read, the stream the caller
\* sees ends with exactly one chunk that begins with the error prefix.
ErrorPrefix == "Streaming error"

MetError == ch.pos > 0 /\ ch.script[ch.pos] = "error"

ErrorChunks == SelectSeq(ch.yielded, LAMBDA c : startswith(c, ErrorPrefix))

C19_RelayNeverRaises ==
  ch.pc # "none" =>
    /\ ~ch.raised
    /\ (ch.pc = "done" /\ MetError) =>
         /\ Len(ErrorChunks) = 1
         /\ startswith(ch.yielded[Len(ch.yielded)], ErrorPrefix)

\* C20: the vendor clients and the HTTP client are constructed at startup
\* only: no handler constructs a client while it handles a request.
C20_NoClientPerRequest ==
  \A r \in observed : Events(r, {"construct"}) = <<>>

\* C21: when the uploaded image is missing or empty as the job starts, the
\* request fails and its caller receives a server error (status 5xx).
C21_MissingUploadIsServerError ==
  \A r \in Req :
    cause[r] = "image_not_found" =>
      /\ pc[r] = "failed"
      /\ out[r].status \in 500..599

\* C22: a second call of fetch_or_copy_file with the same, unchanged source
\* and the same destination leaves the destination holding what it held after
\* the first call; a call that returns normally leaves exactly the source's
\* data in the destination, also when the destination existed before.
C22_Idempotent ==
  fc.pc = "done" =>
    /\ fc.raised = NoExc => fc.dest = "new"
    /\ fc.ncalls = 2 => fc.dest = fc.first

C22_Witness ==
  /\ fc.pc = "done"
  /\ fc.ncalls = 2
  /\ fc.took = "download"
  /\ fc.raised = NoExc
  /\ fc.first = "new"
  /\ fc.dest = "new"

\* C23: retry_async sleeps only between attempts: an invocation that has made
\* m calls of func has slept exactly m - 1 times when it returns, be it with a
\* result or with None.
C23_SleepsOnlyBetweenAttempts ==
  rt.pc = "done" => Len(rt.sleeps) = rt.calls - 1

\* C24: when every remote call, sleep and file operation returns or raises in
\* finite time, every generate_3d_preview and generate_model job ends, done
\* or failed; and a job makes at most 3 checks of the uploaded file, at most 9
\* job.result calls and at most 3 /extract_glb calls.
Terminal(r) == pc[r] \in {"done", "failed"}

LoopsBounded ==
  \A r \in observed :
    /\ Len(EventsOf(r, {"check"}, "wait_for_file")) <= 3
    /\ Len(EventsOf(r, {"call"}, "job.result")) <= 9
    /\ Len(EventsOf(r, {"call"}, "/extract_glb")) <= 3

C24_JobsTerminate ==
  /\ []LoopsBounded
  /\ \A r \in Req : [](kind[r] \in {"preview", "model"} => <>Terminal(r))

C24_Witness ==
  \E r \in observed :
    /\ kind[r] = "model"
    /\ pc[r] = "done"
    /\ Len(EventsOf(r, {"call"}, "job.result")) = 9
    /\ Len(EventsOf(r, {"call"}, "/extract_glb")) = 3

\* C25: in the polling loop of process_3d_job a job.result call other than
\* the first is made only after a result without a video and the sleep that
\* follows it; an exception raised by job.result is the last event of the
\* job: the job has failed and no job.result call follows.
C25_RaiseEndsPolling ==
  \A r \in observed : \A i \in 1..Len(trace[r]) :
    /\ trace[r][i] = Ev("raise", "job.result", 0) =>
         /\ i = Len(trace[r])
         /\ pc[r] = "failed"
         /\ cause[r] = "job.result"
    /\ (/\ trace[r][i] = Ev("call", "job.result", 0)
        /\ trace[r][i - 1].e # "submit") =>
         /\ trace[r][i - 1].e = "sleep" /\ trace[r][i - 1].op = "poll"
         /\ trace[r][i - 2] = Ev("return", "job.result", 0)

C25_Witness ==
  \E r \in observed :
    /\ pc[r] = "failed"
    /\ cause[r] = "job.result"
    /\ Len(EventsOf(r, {"call"}, "job.result")) = 2
    /\ trace[r][Len(trace[r])] = Ev("raise", "job.result", 0)

\* C26: generate_model returns a path only if the job has written both
\* <ts>_3d_model.glb and <ts>_gaussian.glb, under one timestamp token, and
\* the path returned is that of <ts>_3d_model.glb.
Written(r, sfx) == Values(EventsOf(r, {"write"}, sfx))

C26_BothFilesBeforeSuccess ==
  \A r \in observed :
    (kind[r] = "model" /\ out[r].path # <<>>) =>
      /\ pc[r] = "done"
      /\ Len(Written(r, "3d_model")) = 1
      /\ Len(Written(r, "gaussian")) = 1
      /\ Written(r, "3d_model") = Written(r, "gaussian")
      /\ out[r].path = <<Written(r, "3d_model")[1], "3d_model">>
      /\ \A sfx \in {"3d_model", "gaussian"} : files[<<out[r].path[1], sfx>>] = r

C26_Witness ==
  \E r \in observed :
    /\ kind[r] = "model"
    /\ pc[r] = "done"
    /\ out[r].path = <<ts[r], "3d_model">>
    /\ Written(r, "gaussian") = <<ts[r]>>

\* C27: when /extract_glb has failed on all 3 attempts, each by raising or by
\* returning an empty result, extract_glb_async has returned None without
\* raising: /extract_gaussian is not called, no file of the extraction is
\* written, and generate_model fails with status 500.
C27_ExtractionExhausted ==
  \A r \in observed :
    LET tries == EventsOf(r, {"return"}, "/extract_glb") IN
    (Len(tries) = 3 /\ \A i \in 1..3 : tries[i].v = 0 /\ Terminal(r)) =>
      /\ pc[r] = "failed"
      /\ cause[r] = "/extract_glb"
      /\ failure[r] = HTTPException(500, "GLB extraction failed.")
      /\ out[r].status = 500
      /\ out[r].path = <<>>
      /\ EventsOf(r, {"call"}, "/extract_gaussian") = <<>>
      /\ Len(EventsOf(r, {"call"}, "/extract_glb")) = 3
      /\ \A sfx \in Suffix \ {"uploaded"} :
           Written(r, sfx) = <<>> /\ files[<<ts[r], sfx>>] = "absent"

C27_Witness ==
  \E r \in observed :
    /\ pc[r] = "failed"
    /\ cause[r] = "/extract_glb"
    /\ Values(EventsOf(r, {"return"}, "/extract_glb")) = <<0, 0, 0>>
    /\ impl = "app"

\* C28: a preview or model job issues a remote call only after a check has
\* found the uploaded image with data, and the image then holds data; when
\* all 3 checks fail the job has ended with the image-not-found error and has
\* issued no remote call.
RemoteCalls(r) == Events(r, {"call", "submit"})

C28_NoCallBeforeUpload ==
  \A r \in observed :
    kind[r] \in {"preview", "model"} =>
      /\ RemoteCalls(r) # <<>> =>
           /\ Values(EventsOf(r, {"check"}, "wait_for_file")) = <<1>>
           /\ files[<<ts[r], "uploaded">>] \notin {"absent", "empty"}
           /\ \E i \in 1..Len(trace[r]) :
                /\ trace[r][i] = Ev("check", "wait_for_file", 1)
                /\ \A j \in 1..(i - 1) : trace[r][j].e \notin {"call", "submit"}
      /\ Values(EventsOf(r, {"check"}, "wait_for_file")) = <<0, 0, 0>> =>
           \/ pc[r] = "wait_for_file_sleep"
           \/ /\ pc[r] = "failed"
              /\ cause[r] = "image_not_found"
              /\ failure[r].detail = "Image file not found"
              /\ RemoteCalls(r) = <<>>

C28_Witness ==
  \E r \in observed :
    /\ kind[r] = "model"
    /\ pc[r] = "failed"
    /\ cause[r] = "image_not_found"
    /\ Values(EventsOf(r, {"check"}, "wait_for_file")) = <<0, 0, 0>>
    /\ RemoteCalls(r) = <<>>

\* C29: on every sequence of /extract_glb outcomes, the inline loop of the app
\* copy and the retry_async call of the services copy make the same number of
\* /extract_glb calls, sleep the same sequence of delays, and end with the
\* same outcome.
C29_ExtractionEquivalent ==
  (rt.pc = "done" /\ gx.pc = "done" /\ rt.outcomes = gx.outcomes) =>
    /\ rt.calls = gx.calls
    /\ rt.sleeps = gx.sleeps
    /\ rt.ret = gx.ret

\* C30: the completion event of the sketch task is eventually set, whether
\* generate_sketch returned or raised; whenever the event is set the results
\* dict holds exactly one of the keys 'image_filepath' and 'error', and so
\* does what the script thread reads.
OneResult(keys) == keys \in {{k} : k \in ResultKeys}

C30_EventAndOneResult ==
  /\ <>ui.event
  /\ [](ui.event => OneResult(ui.results))
  /\ [](ui.reader = "done" => OneResult(ui.seen))

C30_Witness ==
  /\ ui.event
  /\ ui.outcome = "raise"
  /\ ui.results = {"error"}
  /\ ui.reader = "done"
  /\ ui.i = MaxPolls
  /\ ui.seen = {"error"}

====
